---- MODULE Spec2Model ----
(***************************************************************************)
(* Model of the image-insights client component                            *)
(* (src/components/image-insights.tsx) and of the relay endpoint           *)
(* (src/app/api/generate_insights/route.ts).                               *)
(*                                                                         *)
(* The client is a React component: its state is the useState cells, each  *)
(* event handler runs to completion, and the async handler handleAnalyze   *)
(* is suspended at `await fetch(...)` and at `await response.json()`.      *)
(* Every suspended invocation of handleAnalyze is an element of inflight.  *)
(***************************************************************************)
EXTENDS Integers, Sequences, FiniteSets, TLC

VARIABLES
  step,        \* useState(1)                       line 33
  image,       \* useState<File | null>(null)       line 34
  previewUrl,  \* useState<string | null>(null)     line 35
  language,    \* useState("english")               line 36
  length,      \* useState("short")                 line 37
  result,      \* useState<string | null>(null)     line 38
  loading,     \* useState(false)                   line 39
  error,       \* useState<string | null>(null)     line 40
  previewJobs, \* files whose FileReader / Image load (createImagePreview) is pending
  inflight,    \* suspended invocations of handleAnalyze, with their request and response
  fetchCount,  \* number of fetch('/api/generate_insights') calls issued so far
  relayOut,    \* what an invocation of the relay's POST was given and produced
  dims         \* inputs and output of a calculateImageDimensions call

vars == <<step, image, previewUrl, language, length, result, loading, error,
          previewJobs, inflight, fetchCount, relayOut, dims>>

clientVars == <<step, image, previewUrl, language, length, result, loading, error,
                previewJobs, inflight, fetchCount, relayOut>>

----------------------------------------------------------------------------
(* Bounds of the model. *)

MaxFiles == 1
MaxLanguages == 2
MaxLengths == 2
MaxFetches == 2
MaxContainer == 27
MaxImage == 9

----------------------------------------------------------------------------
(* Values. *)

Null == "null"
Undefined == "undefined"

languages ==
  <<"english", "spanish", "german", "french", "portuguese", "italian", "hindi", "thai">>

descriptionLengths == <<"short", "medium", "long">>

Min(a, b) == IF a < b THEN a ELSE b

\* The values the language Select and the length RadioGroup can deliver.
LanguageChoices == {languages[i] : i \in 1..Min(MaxLanguages, Len(languages))}
LengthChoices == {descriptionLengths[i] : i \in 1..Min(MaxLengths, Len(descriptionLengths))}

fileNames == <<"a.png", "b.png", "c.png", "d.png">>
Files == {fileNames[i] : i \in 1..Min(MaxFiles, Len(fileNames))}

\* Texts the external model can return in response.response ("" is falsy in JS).
ModelTexts == {"", "insights"}
\* Outcomes of ai.run: it throws, or returns an object with or without a text.
ModelOutcomes == ModelTexts \cup {Undefined, "throws"}

ValidationError == "Please upload an image first."
GenericError == "An error occurred while analyzing the image. Please try again."

\* A part of a multipart body that is a string, not a file.
NotAFile == "text"

----------------------------------------------------------------------------
(* The relay endpoint: POST of route.ts. *)

\* An exception that leaves POST: the hosting runtime answers for the handler.
Uncaught == [uncaught |-> TRUE, status |-> 500, json |-> FALSE,
             insights |-> Undefined, error |-> Undefined]

\* NextResponse.json(body, {status}).
JsonResponse(status, insights, err) ==
  [uncaught |-> FALSE, status |-> status, json |-> TRUE,
   insights |-> insights, error |-> err]

\* req.parsable: request.formData() resolves (line 10); req.image: what
\* formData.get('image') returns (line 11), whose arrayBuffer() is called
\* at line 15.  Both awaits stand before the try of line 26.
POST(req, modelOutcome) ==
  IF ~req.parsable THEN Uncaught
  ELSE IF req.image \in {Null, NotAFile} THEN Uncaught
  ELSE IF modelOutcome = "throws"
       THEN JsonResponse(500, Undefined, "Failed to generate insights")
       ELSE JsonResponse(200, modelOutcome, Undefined)

RelayRecord(req, modelOutcome) ==
  [request |-> req, model |-> modelOutcome, response |-> POST(req, modelOutcome)]

\* The relay is invoked with an arbitrary request.
RelayInvoked(req, modelOutcome) ==
  /\ relayOut' = {RelayRecord(req, modelOutcome)}
  /\ UNCHANGED <<step, image, previewUrl, language, length, result, loading, error,
                 previewJobs, inflight, fetchCount, dims>>

----------------------------------------------------------------------------
(* The client component. *)

\* createImagePreview starts an asynchronous FileReader / Image load that
\* ends in PreviewLoaded.
createImagePreview(file) == previewJobs' = previewJobs \cup {file}

handleImageUpload(file) ==
  /\ previewUrl = Null            \* the <input> is rendered only without a preview
  /\ image' = file
  /\ createImagePreview(file)
  /\ step' = 2
  /\ error' = Null
  /\ UNCHANGED <<previewUrl, language, length, result, loading, inflight,
                 fetchCount, relayOut, dims>>

\* img.onload of createImagePreview: the data URL of the file is stored.
PreviewLoaded(file) ==
  /\ file \in previewJobs
  /\ previewJobs' = previewJobs \ {file}
  /\ previewUrl' = file
  /\ UNCHANGED <<step, image, language, length, result, loading, error,
                 inflight, fetchCount, relayOut, dims>>

\* handleResize: registered by the effect while the component is mounted.
handleResize ==
  /\ image # Null
  /\ createImagePreview(image)
  /\ UNCHANGED <<step, image, previewUrl, language, length, result, loading, error,
                 inflight, fetchCount, relayOut, dims>>

handleRemoveImage ==
  /\ previewUrl # Null            \* the X button is rendered over the preview only
  /\ image' = Null
  /\ previewUrl' = Null
  /\ step' = 1
  /\ result' = Null
  /\ UNCHANGED <<language, length, loading, error, previewJobs, inflight,
                 fetchCount, relayOut, dims>>

setLanguage(value) ==
  /\ language' = value
  /\ step' = 3
  /\ UNCHANGED <<image, previewUrl, length, result, loading, error, previewJobs,
                 inflight, fetchCount, relayOut, dims>>

setLength(value) ==
  /\ length' = value
  /\ UNCHANGED <<step, image, previewUrl, language, result, loading, error,
                 previewJobs, inflight, fetchCount, relayOut, dims>>

\* A body built from the initial selections instead of the current ones.
FormDataDefaults == [image |-> image, language |-> "english", length |-> "short"]

\* The multipart body handleAnalyze builds.
FormData == [image |-> image, language |-> language, length |-> length]

\* The response of a request that has not been answered yet.
Pending == [uncaught |-> FALSE, status |-> 0, json |-> FALSE,
            insights |-> Undefined, error |-> Undefined]

\* A handler that raises the loading flag before it looks for the image.
AnalyzeRejectedAfterLoading ==
  /\ loading' = TRUE
  /\ error' = ValidationError
  /\ UNCHANGED <<step, result, inflight, fetchCount>>

\* handleAnalyze without an image: lines 117-125.
AnalyzeRejected ==
  /\ error' = ValidationError
  /\ UNCHANGED <<step, result, loading, inflight, fetchCount>>

\* handleAnalyze with an image, up to `await fetch`: lines 126-138.
AnalyzeSubmitted ==
  /\ fetchCount < MaxFetches
  /\ loading' = TRUE
  /\ error' = Null
  /\ fetchCount' = fetchCount + 1
  /\ inflight' = inflight \cup
       {[id |-> fetchCount + 1, form |-> FormData, pc |-> "relay", response |-> Pending]}
  /\ UNCHANGED <<step, result>>

handleAnalyze ==
  /\ IF image = Null THEN AnalyzeRejected ELSE AnalyzeSubmitted
  /\ UNCHANGED <<image, previewUrl, language, length, previewJobs, relayOut, dims>>

\* A button that stays enabled while a request is outstanding.
AnalyzeEnabledWhileLoading == image # Null

\* disabled={!image || loading} of the Analyze button.
AnalyzeEnabled == image # Null /\ ~loading

AnalyzeClick == AnalyzeEnabled /\ handleAnalyze

\* handleAnalyze called while no image is stored, which the button cannot do.
AnalyzeWithoutImage == image = Null /\ handleAnalyze

\* The relay serves the request of a suspended handleAnalyze; the body may
\* arrive damaged, and the model answers or throws.
RelayServes(r, parsable, modelOutcome) ==
  /\ r \in inflight /\ r.pc = "relay"
  /\ inflight' = (inflight \ {r}) \cup
       {[r EXCEPT !.pc = "fetch",
                  !.response = POST([parsable |-> parsable, image |-> r.form.image,
                                     language |-> r.form.language,
                                     length |-> r.form.length], modelOutcome)]}
  /\ UNCHANGED <<step, image, previewUrl, language, length, result, loading, error,
                 previewJobs, fetchCount, relayOut, dims>>

\* A handler without the finally block: the flag keeps its value.
FinallyLoadingKept == loading

\* setLoading(false) of the finally block: lines 168-170.
FinallyLoading == FALSE

\* catch + finally of handleAnalyze: lines 159-170.
AnalyzeFailed(r) ==
  /\ error' = GenericError
  /\ loading' = FinallyLoading
  /\ inflight' = inflight \ {r}
  /\ UNCHANGED <<step, result>>

\* response.ok: line 140.
ResponseOk(response) == response.status >= 200 /\ response.status <= 299

\* A handler that stores whatever the body holds.
HasInsightsAlways(response) == TRUE

\* `if (data.insights)`: line 145.
HasInsights(response) == response.insights \notin {Undefined, ""}

\* fetch rejects (the network fails) before a response arrives.
FetchRejected(r) ==
  /\ r \in inflight /\ r.pc \in {"relay", "fetch"}
  /\ AnalyzeFailed(r)
  /\ UNCHANGED <<image, previewUrl, language, length, previewJobs, fetchCount,
                 relayOut, dims>>

\* fetch resolves: lines 135-144, up to `await response.json()`.
FetchResolved(r) ==
  /\ r \in inflight /\ r.pc = "fetch"
  /\ IF ResponseOk(r.response)
     THEN /\ inflight' = (inflight \ {r}) \cup {[r EXCEPT !.pc = "json"]}
          /\ UNCHANGED <<step, result, loading, error>>
     ELSE AnalyzeFailed(r)
  /\ UNCHANGED <<image, previewUrl, language, length, previewJobs, fetchCount,
                 relayOut, dims>>

\* response.json() settles: lines 144-170.
JsonResolved(r) ==
  /\ r \in inflight /\ r.pc = "json"
  /\ IF r.response.json /\ HasInsights(r.response)
     THEN /\ result' = r.response.insights
          /\ step' = 4
          /\ loading' = FinallyLoading
          /\ inflight' = inflight \ {r}
          /\ UNCHANGED error
     ELSE AnalyzeFailed(r)
  /\ UNCHANGED <<image, previewUrl, language, length, previewJobs, fetchCount,
                 relayOut, dims>>

----------------------------------------------------------------------------
(* Numbers.  A JavaScript number is an IEEE 754 binary64 value: `/` and `*` *)
(* return the exact quotient or product rounded to the nearest value with   *)
(* a 53-bit significand, ties to even.  Naturals beyond TLC's integers are  *)
(* kept as four limbs, least significant first.                             *)

MantissaBits == 53

LimbBase == 2^20

\* The carry out of limb i goes into limb i + 1.
CarryAt(d, i) == [d EXCEPT ![i] = @ % LimbBase, ![i + 1] = @ + (d[i] \div LimbBase)]
BigCarry(d) == CarryAt(CarryAt(CarryAt(d, 1), 2), 3)

BigZero == <<0, 0, 0, 0>>
BigOf(n) == BigCarry(<<n, 0, 0, 0>>)
BigAdd(a, b) == BigCarry(<<a[1] + b[1], a[2] + b[2], a[3] + b[3], a[4] + b[4]>>)
\* a >= b
BigSub(a, b) == BigCarry(<<a[1] - b[1], a[2] - b[2], a[3] - b[3], a[4] - b[4]>>)
\* k < 2^10
BigMulSmall(a, k) == BigCarry(<<a[1] * k, a[2] * k, a[3] * k, a[4] * k>>)
BigDouble(a) == BigMulSmall(a, 2)
BigOdd(a) == a[1] % 2 = 1
BigLt(a, b) ==
  \/ a[4] < b[4]
  \/ a[4] = b[4] /\ a[3] < b[3]
  \/ a[4] = b[4] /\ a[3] = b[3] /\ a[2] < b[2]
  \/ a[4] = b[4] /\ a[3] = b[3] /\ a[2] = b[2] /\ a[1] < b[1]
BigGeq(a, b) == ~BigLt(a, b)
BigDist(a, b) == IF BigLt(a, b) THEN BigSub(b, a) ELSE BigSub(a, b)
BigIsSmall(a) == a[4] = 0 /\ a[3] = 0 /\ a[2] = 0 /\ a[1] < 2^10

\* a divided by k < 2^10, limb by limb from the top: the quotient q and the
\* remainder r.
DivPut(q, x, k) == [q |-> <<x \div k>> \o q, r |-> x % k]
DivLimb(acc, limb, k) == DivPut(acc.q, acc.r * LimbBase + limb, k)
BigDivSmall(a, k) ==
  DivLimb(DivLimb(DivLimb(DivLimb([q |-> <<>>, r |-> 0], a[4], k), a[3], k), a[2], k),
          a[1], k)
BigHalf(a) == BigDivSmall(a, 2).q

\* a * 2^n and the integer part of a / 2^n.
RECURSIVE BigShl(_, _)
BigShl(a, n) ==
  IF a = BigZero THEN a
  ELSE IF n >= 10 THEN BigShl(BigMulSmall(a, 2^10), n - 10)
  ELSE BigMulSmall(a, 2^n)

RECURSIVE BigShr(_, _)
BigShr(a, n) ==
  IF a = BigZero THEN a
  ELSE IF n >= 10 THEN BigShr(BigDivSmall(a, 2^9).q, n - 9)
  ELSE BigDivSmall(a, 2^n).q

\* The number of bits of a > 0.
LimbBits(x) == CHOOSE k \in 1..30 : 2^(k - 1) <= x /\ x < 2^k
BigBits(a) ==
  IF a[4] > 0 THEN 60 + LimbBits(a[4])
  ELSE IF a[3] > 0 THEN 40 + LimbBits(a[3])
  ELSE IF a[2] > 0 THEN 20 + LimbBits(a[2])
  ELSE LimbBits(a[1])

\* The t with 2^t <= n / d < 2^(t + 1): it is s or s - 1 for s the difference
\* of the bit lengths.
ExponentNear(n, d, s) ==
  IF (IF s >= 0 THEN BigLt(n, BigShl(d, s)) ELSE BigLt(BigShl(n, -s), d))
  THEN s - 1 ELSE s
Exponent(n, d) == ExponentNear(n, d, BigBits(n) - BigBits(d))

\* The integer part q of (n / d) * 2^j for a divisor d < 2^10, and whether a
\* fraction is left: n1 is the integer part of n * 2^j.
SmallQuotientOf(qr, lost) == [q |-> qr.q, inexact |-> lost \/ qr.r # 0]
SmallQuotientFrom(n, n1, d, j) ==
  SmallQuotientOf(BigDivSmall(n1, d), j < 0 /\ BigShl(n1, -j) # n)
SmallQuotient(n, d, j) ==
  SmallQuotientFrom(n, IF j >= 0 THEN BigShl(n, j) ELSE BigShr(n, -j), d, j)

\* One more bit of the quotient, by long division: s.q and the remainder
\* s.r < d; r2 is twice the remainder.
QuotientStep(q, r2, d) ==
  IF BigGeq(r2, d)
  THEN [q |-> BigAdd(BigDouble(q), BigOf(1)), r |-> BigSub(r2, d)]
  ELSE [q |-> BigDouble(q), r |-> r2]
QuotientBit(s, d) == QuotientStep(s.q, BigDouble(s.r), d)

\* k more bits of the quotient: the first half of them, then the rest (the
\* remainder stays below d).
RECURSIVE QuotientBits(_, _, _)
QuotientRest(half, d, k) == IF BigLt(half.r, d) THEN QuotientBits(half, d, k) ELSE half
QuotientBits(s, d, k) ==
  IF k = 0 THEN s
  ELSE IF k = 1 THEN QuotientBit(s, d)
  ELSE QuotientRest(QuotientBits(s, d, k \div 2), d, k - (k \div 2))

\* The integer part q of (n / d) * 2^(MantissaBits - t) for t = Exponent(n, d),
\* by long division of n1 = n * 2^-t by d1 = d (or of n by d1 = d * 2^t), and
\* whether a fraction is left.
LongQuotientOf(qr) == [q |-> qr.q, inexact |-> qr.r # BigZero]
LongQuotientFrom(n1, d1) ==
  LongQuotientOf(QuotientBits([q |-> BigOf(1), r |-> BigSub(n1, d1)], d1, MantissaBits))
LongQuotient(n, d, t) ==
  LongQuotientFrom(IF t < 0 THEN BigShl(n, -t) ELSE n, IF t > 0 THEN BigShl(d, t) ELSE d)

\* A number is [m, e], the value m * 2^e.  Round(n, d, e) is the number nearest
\* to (n / d) * 2^e, ties to even, with a significand of MantissaBits bits: the
\* quotient is taken to one bit more, and that bit and the fraction left decide.
RoundCarry(m, e) ==
  IF BigBits(m) > MantissaBits THEN [m |-> BigHalf(m), e |-> e + 1] ELSE [m |-> m, e |-> e]
RoundUp(m, up, e) == RoundCarry(IF up THEN BigAdd(m, BigOf(1)) ELSE m, e)
RoundHalf(m, odd, inexact, e) == RoundUp(m, odd /\ (inexact \/ BigOdd(m)), e)
RoundQuotient(qr, e) == RoundHalf(BigHalf(qr.q), BigOdd(qr.q), qr.inexact, e)
RoundAt(n, d, e, t) ==
  RoundQuotient(IF BigIsSmall(d)
                THEN SmallQuotient(n, d[1], MantissaBits - t)
                ELSE LongQuotient(n, d, t),
                t + e - MantissaBits + 1)
Round(n, d, e) == RoundAt(n, d, e, Exponent(n, d))

\* The number of a small natural (exact).
Number(n) == [m |-> BigOf(n), e |-> 0]

\* The same number with its significand shifted to MantissaBits bits.
NormalBy(x, s) == [m |-> BigShl(x.m, s), e |-> x.e - s]
Normal(x) == NormalBy(x, MantissaBits - BigBits(x.m))

\* x / y in binary64.
NumDiv(x, y) == Round(x.m, y.m, x.e - y.e)
\* x * y in binary64, for x a small natural (its significand below 2^10).
NumMul(x, y) == Round(BigMulSmall(y.m, x.m[1]), BigOf(1), x.e + y.e)

NormalLt(a, b) == a.e < b.e \/ (a.e = b.e /\ BigLt(a.m, b.m))
NumLt(x, y) == NormalLt(Normal(x), Normal(y))
NumLeq(x, y) == ~NumLt(y, x)

\* calculateImageDimensions: lines 77-91.
FitByRatio(containerWidth, containerHeight, imgRatio, containerRatio) ==
  IF NumLt(containerRatio, imgRatio)
  THEN [width |-> containerWidth, height |-> NumDiv(containerWidth, imgRatio)]
  ELSE [width |-> NumMul(containerHeight, imgRatio), height |-> containerHeight]

calculateImageDimensions(containerWidth, containerHeight, imgWidth, imgHeight) ==
  FitByRatio(containerWidth, containerHeight,
             NumDiv(imgWidth, imgHeight), NumDiv(containerWidth, containerHeight))

----------------------------------------------------------------------------
(* Specifications. *)

\* No measurement: the client specifications never call calculateImageDimensions.
NoDims ==
  [containerWidth |-> 0, containerHeight |-> 0, imgWidth |-> 0, imgHeight |-> 0,
   done |-> FALSE, width |-> Number(1), height |-> Number(1)]

\* The component after mounting: lines 33-40.
Mounted ==
  /\ step = 1
  /\ image = Null
  /\ previewUrl = Null
  /\ language = "english"
  /\ length = "short"
  /\ result = Null
  /\ loading = FALSE
  /\ error = Null
  /\ previewJobs = {}
  /\ inflight = {}
  /\ fetchCount = 0
  /\ relayOut = {}

Init == Mounted /\ dims = NoDims

(* The component as its controls drive it. *)
Next ==
  \/ \E file \in Files : handleImageUpload(file)
  \/ \E file \in Files : PreviewLoaded(file)
  \/ handleResize
  \/ handleRemoveImage
  \/ \E value \in LanguageChoices : setLanguage(value)
  \/ \E value \in LengthChoices : setLength(value)
  \/ AnalyzeClick
  \/ \E r \in inflight, parsable \in BOOLEAN, m \in ModelOutcomes : RelayServes(r, parsable, m)
  \/ \E r \in inflight : FetchRejected(r)
  \/ \E r \in inflight : FetchResolved(r)
  \/ \E r \in inflight : JsonResolved(r)

Spec == Init /\ [][Next]_vars

(* The component when handleAnalyze is also called without a stored image. *)
NextHandlers ==
  \/ Next
  \/ AnalyzeWithoutImage

SpecHandlers == Init /\ [][NextHandlers]_vars

(* The relay on its own, invoked with any multipart request: each part may *)
(* be missing (formData.get returns null), and 'image' may be a string.     *)
RelayRequests ==
  [parsable : BOOLEAN, image : Files \cup {Null, NotAFile},
   language : LanguageChoices \cup {Null}, length : LengthChoices \cup {Null}]

NextRelay == \E req \in RelayRequests, m \in ModelOutcomes : RelayInvoked(req, m)

SpecRelay == Init /\ [][NextRelay]_vars

(* calculateImageDimensions on its own: the container's bounding box and the *)
(* decoded image's size are drawn in the initial state, img.onload computes. *)
InitDims ==
  /\ Mounted
  /\ \E cw \in 1..MaxContainer, ch \in 1..MaxContainer, iw \in 1..MaxImage, ih \in 1..MaxImage :
       dims = [NoDims EXCEPT !.containerWidth = cw, !.containerHeight = ch,
                             !.imgWidth = iw, !.imgHeight = ih]

\* img.onload: lines 58-63.
Measured(d, final) == [d EXCEPT !.done = TRUE, !.width = final.width, !.height = final.height]

ImageLoaded ==
  /\ ~dims.done
  /\ dims' = Measured(dims, calculateImageDimensions(Number(dims.containerWidth),
                Number(dims.containerHeight), Number(dims.imgWidth),
                Number(dims.imgHeight)))
  /\ UNCHANGED clientVars

NextDims == ImageLoaded

SpecDims == InitDims /\ [][NextDims]_vars

----------------------------------------------------------------------------
(* The loading flag and the outstanding request. *)

\* C1: the loading flag is true exactly while a submitted analysis request is
\* unresolved: it is raised when the request is issued, released when the
\* request ends in success, in a failure response or in an exception, and a
\* submit rejected for want of an image never changes it.
C1_LoadingWhileUnresolved == loading <=> inflight # {}

\* A request ended in the catch block and the flag is released again.
C1_ReleasedAfterFailure ==
  fetchCount > 0 /\ inflight = {} /\ ~loading /\ error = GenericError

\* C2: at most one analysis request is outstanding at any time, because the
\* Analyze button is disabled while loading is true.
C2_AtMostOneOutstanding == Cardinality(inflight) <= 1

\* A second request is outstanding after the first one has ended.
C2_SecondRequestAlone ==
  fetchCount >= 2 /\ Cardinality(inflight) = 1 /\ loading /\ ~AnalyzeEnabled

----------------------------------------------------------------------------
(* The request. *)

\* The request a submit in the current state has to issue.
IssuedBy(q) ==
  /\ q.id = fetchCount'
  /\ q.pc = "relay"
  /\ q.form = [image |-> image, language |-> language, length |-> length]
  /\ inflight' \ {q} = inflight
  /\ q \notin inflight

\* C4: a submit with a stored image issues exactly one POST, whose body holds
\* the image, the selected language and the selected length and nothing
\* else; no other step issues or alters a request's body.
C4_OnePostPerSubmit ==
  [][/\ AnalyzeClick =>
          fetchCount' = fetchCount + 1 /\ \E q \in inflight' : IssuedBy(q)
     /\ ~AnalyzeClick =>
          /\ fetchCount' = fetchCount
          /\ \A q \in inflight' : \E r \in inflight : r.id = q.id /\ r.form = q.form]_vars

\* A request with selections other than the initial ones is on its way.
C4_SelectionsPosted ==
  \E r \in inflight :
    /\ r.pc = "relay"
    /\ r.form.image \in Files
    /\ r.form.language # "english"
    /\ r.form.length # "short"

----------------------------------------------------------------------------
(* The end of a request. *)

\* The suspended invocation r ends in this step.
Settled(r) == \A q \in inflight' : q.id # r.id

\* The response of r is not ok, or it is ok and its body has no insights field.
FailureResponse(r) ==
  \/ r.pc = "fetch" /\ r.response.status \notin 200..299
  \/ r.pc = "json" /\ r.response.insights = Undefined

\* The response of r is ok and its body carries an insights text.
CarriesInsights(r) ==
  /\ r.pc = "json"
  /\ r.response.status \in 200..299
  /\ r.response.insights \in ModelTexts \ {""}

StoredFrom(r) == result' = r.response.insights /\ step' = 4 /\ error' = Null

\* C8: a response that is not ok, or an ok response without an insights field,
\* sets the generic error and leaves the result and the step unchanged; only
\* an ok response carrying an insights text stores the text as the result,
\* moves the step to 4 and leaves the error absent.
C8_ResponseHandling ==
  [][/\ \A r \in inflight :
          /\ Settled(r) /\ FailureResponse(r) =>
               error' = GenericError /\ result' = result /\ step' = step
          /\ Settled(r) /\ CarriesInsights(r) => StoredFrom(r)
     /\ (result' \notin {result, Null} \/ (step' = 4 /\ step # 4)) =>
          \E r \in inflight : Settled(r) /\ CarriesInsights(r) /\ StoredFrom(r)]_vars

\* A request failed after an earlier one had succeeded: the earlier result stays.
C8_FailureKeepsResult ==
  /\ fetchCount >= 2
  /\ inflight = {}
  /\ error = GenericError
  /\ result = "insights"
  /\ step = 4

----------------------------------------------------------------------------
(* Selecting and removing the image. *)

\* C5: Remove Image leaves the image, the preview, the result and the error
\* absent and the progress step at 1.
C5_RemoveResets ==
  [][handleRemoveImage =>
       /\ image' = Null
       /\ previewUrl' = Null
       /\ result' = Null
       /\ error' = Null
       /\ step' = 1]_vars

\* C7: Select Image stores the chosen file, clears the result and the error
\* and sets the progress step to 2.
C7_SelectResets ==
  [][\A file \in Files :
       handleImageUpload(file) =>
         image' = file /\ result' = Null /\ error' = Null /\ step' = 2]_vars

\* C10: while no image is stored no result is stored, also when the image is
\* removed while a request is outstanding.
C10_NoResultWithoutImage == image = Null => result = Null

----------------------------------------------------------------------------
(* The relay. *)

\* The request reaches the model: its body parses and its image part is a file.
ReachesModel(o) == o.request.parsable /\ o.request.image \in Files

\* C6: every failure of the relay, whatever its cause, is answered with a
\* JSON error body and status 500 and never leaves the handler as an
\* exception; a success is answered with status 200 and {insights}.
C6_RelayAnswersJson ==
  \A o \in relayOut :
    /\ ~o.response.uncaught
    /\ o.response.json
    /\ IF ReachesModel(o) /\ o.model # "throws"
       THEN o.response.status = 200 /\ o.response.insights = o.model
       ELSE o.response.status = 500 /\ o.response.error = "Failed to generate insights"

----------------------------------------------------------------------------
(* calculateImageDimensions. *)

FitsContainer ==
  /\ NumLeq(dims.width, Number(dims.containerWidth))
  /\ NumLeq(dims.height, Number(dims.containerHeight))

\* |width * imgHeight - height * imgWidth| <= height * imgWidth / 2^(MantissaBits - 3)
AspectClose(a, b) == BigGeq(BigShr(b, MantissaBits - 3), BigDist(a, b))
AspectAligned(w, h, lo) ==
  AspectClose(BigShl(BigMulSmall(w.m, dims.imgHeight), w.e - lo),
              BigShl(BigMulSmall(h.m, dims.imgWidth), h.e - lo))
AspectNormal(w, h) == AspectAligned(w, h, Min(w.e, h.e))
AspectWithinTolerance == AspectNormal(Normal(dims.width), Normal(dims.height))

\* C9: for all positive container and image sizes the computed size fits the
\* container on both axes and keeps the image's aspect ratio within rounding
\* tolerance.
C9_PreviewFitsContainer == dims.done => FitsContainer /\ AspectWithinTolerance

====
